---- MODULE Spec2Model ----
(***************************************************************************)
(* Restaurant / Pizza / RestaurantPizza service (server/app.py,            *)
(* server/models.py, server/seed.py).                                      *)
(*                                                                         *)
(* The store is the three tables.  A handler is a sequence of steps, one   *)
(* per statement that reads or writes the database; three workers (one     *)
(* for POST /restaurant_pizzas, one for DELETE /restaurants/<id>, one for  *)
(* the GET routes) each handle one request at a time.  Spec starts a       *)
(* request only when no other is being handled (every request runs to      *)
(* completion before the next starts); SpecConc lets the steps of the      *)
(* three workers interleave.                                               *)
(*                                                                         *)
(* JSON values are records [t |-> type, v |-> value].  A JSON float is     *)
(* kept in hundredths (12.50 is 1250), as is the Float column `price`.     *)
(* The database is the default one, SQLite, which does not enforce foreign *)
(* keys.                                                                   *)
(***************************************************************************)
EXTENDS Integers, Sequences, FiniteSets

VARIABLES restaurants, pizzas, restaurant_pizzas, request, response,
          post_worker, delete_worker, get_worker

vars == <<restaurants, pizzas, restaurant_pizzas, request, response,
          post_worker, delete_worker, get_worker>>

workers == <<post_worker, delete_worker, get_worker>>

store == <<restaurants, pizzas, restaurant_pizzas>>

-----------------------------------------------------------------------------
(* Bounds *)

\* POST requests are issued while the next offering id is at most this.
MaxOfferingId == 6

\* The same cap for the interleaved specification.
MaxConcOfferingId == 6

-----------------------------------------------------------------------------
(* JSON values of a request body *)

JNull == [t |-> "null", v |-> 0]

JInt(n) == [t |-> "int", v |-> n]

\* a float given as whole part and hundredths: JFloat(12, 50) is 12.50
JFloat(whole, hundredths) == [t |-> "float", v |-> whole * 100 + hundredths]

JTrue == [t |-> "bool", v |-> 1]

\* a string that is not the text of a number
JStr == [t |-> "str", v |-> 0]

\* the string that is the decimal text of the integer n: JNumStr(1) is "1"
JNumStr(n) == [t |-> "numstr", v |-> n]

\* the numeric value of a Python int, bool or float, in hundredths
Hundredths(value) == IF value.t = "float" THEN value.v ELSE value.v * 100

\* the integers an INTEGER column holds or compares equal to for a bound
\* parameter: an int, a bool (0 or 1), a float without fraction, a string
\* that is the text of an integer; nothing else
DbInteger(value) ==
    CASE value.t \in {"int", "bool", "numstr"} -> { value.v }
      [] value.t = "float" -> IF value.v % 100 = 0 THEN { value.v \div 100 } ELSE {}
      [] OTHER -> {}

-----------------------------------------------------------------------------
(* seed.py: the rows the database is seeded with *)

seed_restaurants ==
    { [id |-> 1, name |-> "Karen's Pizza Shack", address |-> "123 Pizza Lane"],
      [id |-> 2, name |-> "Sanjay's Pizza Bistro", address |-> "456 Doughnut Drive"],
      [id |-> 3, name |-> "Kiki's Pizza Palace", address |-> "789 Cheese Street"] }

seed_pizzas ==
    { [id |-> 1, name |-> "Margherita",
       ingredients |-> "Dough, Tomato Sauce, Cheese, Basil"],
      [id |-> 2, name |-> "Pepperoni Supreme",
       ingredients |-> "Dough, Tomato Sauce, Cheese, Pepperoni"],
      [id |-> 3, name |-> "California Veggie",
       ingredients |-> "Dough, Pesto, Ricotta, Red peppers, Spinach"] }

seed_restaurant_pizzas ==
    { [id |-> 1, price |-> 1250, restaurant_id |-> 1, pizza_id |-> 1],
      [id |-> 2, price |-> 1400, restaurant_id |-> 2, pizza_id |-> 2],
      [id |-> 3, price |-> 1550, restaurant_id |-> 3, pizza_id |-> 3],
      [id |-> 4, price |-> 1300, restaurant_id |-> 1, pizza_id |-> 2],
      [id |-> 5, price |-> 1275, restaurant_id |-> 2, pizza_id |-> 1] }

-----------------------------------------------------------------------------
(* The requests the clients send *)

PriceInputs ==
    { JNull, JStr, JTrue, JInt(-5), JInt(0), JFloat(12, 50), JInt(30), JInt(31) }

\* restaurant 4 and pizza 4 never exist
RestaurantIdInputs == { JNull, JInt(1), JInt(4), JFloat(1, 0), JNumStr(2) }

PizzaIdInputs == { JNull, JInt(1), JInt(4), JFloat(1, 50), JNumStr(3) }

PathIds == { 1, 2, 4 }

\* the bodies that are JSON objects; an absent field reads as null
Objects(prices, pizza_ids, restaurant_ids) ==
    [ kind : {"object"}, price : prices, pizza_id : pizza_ids,
      restaurant_id : restaurant_ids ]

\* the other bodies: JSON that is an array or null, text that is not JSON,
\* a body sent without the JSON content type
OtherBodies ==
    { [kind |-> "array"], [kind |-> "null"], [kind |-> "malformed"],
      [kind |-> "not_json"] }

\* the smaller request sets of the interleaved specification
ConcPriceInputs == { JNull, JInt(0), JFloat(12, 50) }

ConcRestaurantIdInputs == { JInt(1), JNumStr(2), JInt(4) }

ConcPizzaIdInputs == { JInt(1), JInt(4) }

ConcPathIds == { 1, 2, 4 }

-----------------------------------------------------------------------------
(* The storage layer *)

Ids(table) == { row.id : row \in table }

\* Model.query.get(key): the rows (one or none) whose primary key the
\* database compares equal to the key
query_get(table, key) == { row \in table : row.id \in DbInteger(key) }

\* the one row of a query_get that is not empty
TheRow(rows) == CHOOSE row \in rows : TRUE

\* the test `if not row` after row = Model.query.get(key) is
\* `~ Found(table, key)`
Found(table, key) == query_get(table, key) # {}

\* id = Column(Integer, primary_key=True): the rowid given to an inserted
\* row is one more than the largest in use
next_id(table) ==
    IF table = {} THEN 1
    ELSE (CHOOSE i \in Ids(table) : \A j \in Ids(table) : j <= i) + 1

\* the rows of a relationship collection, in primary-key order
RECURSIVE OrderById(_)
OrderById(rows) ==
    IF rows = {} THEN <<>>
    ELSE LET first == CHOOSE r \in rows : \A q \in rows : r.id <= q.id
         IN  <<first>> \o OrderById(rows \ {first})

-----------------------------------------------------------------------------
(* models.py: validation *)

\* the mutation of validate_price that drops the upper limit
validate_price_no_upper(value) ==
    /\ value.t \in {"int", "float", "bool"}
    /\ 1 * 100 <= Hundredths(value)

\* the mutation of validate_price that drops the lower limit
validate_price_no_lower(value) ==
    /\ value.t \in {"int", "float", "bool"}
    /\ Hundredths(value) <= 30 * 100

\* RestaurantPizza.validate_price: TRUE when the value is returned, FALSE
\* when ValueError is raised.  isinstance(value, (int, float)) accepts a
\* bool, which compares as 0 or 1.
validate_price(value) ==
    /\ value.t \in {"int", "float", "bool"}
    /\ 1 * 100 <= Hundredths(value)
    /\ Hundredths(value) <= 30 * 100

-----------------------------------------------------------------------------
(* models.py: serialization (SerializerMixin.to_dict) *)

Columns(model) ==
    CASE model = "Restaurant"      -> {"id", "name", "address"}
      [] model = "Pizza"           -> {"id", "name", "ingredients"}
      [] model = "RestaurantPizza" -> {"id", "price", "restaurant_id", "pizza_id"}

\* the relationship attributes of a model and the model each leads to
Relationships(model) ==
    CASE model = "Restaurant"      -> [restaurant_pizzas |-> "RestaurantPizza"]
      [] model = "Pizza"           -> [restaurant_pizzas |-> "RestaurantPizza"]
      [] model = "RestaurantPizza" -> [restaurant |-> "Restaurant", pizza |-> "Pizza"]

\* the mutation of Restaurant.serialize_rules that has no rule
Restaurant_serialize_rules_none == {}

Restaurant_serialize_rules == { <<"restaurant_pizzas", "restaurant">> }

Pizza_serialize_rules == { <<"restaurant_pizzas", "pizza">> }

RestaurantPizza_serialize_rules ==
    { <<"restaurant", "restaurant_pizzas">>, <<"pizza", "restaurant_pizzas">> }

serialize_rules(model) ==
    CASE model = "Restaurant"      -> Restaurant_serialize_rules
      [] model = "Pizza"           -> Pizza_serialize_rules
      [] model = "RestaurantPizza" -> RestaurantPizza_serialize_rules

\* the rules that apply below attribute `key`: the rest of every rule that
\* starts with it
Fork(rules, key) ==
    { SubSeq(rule, 2, Len(rule)) : rule \in { r \in rules : Len(r) > 1 /\ r[1] = key } }

\* the rows an attribute of `row` leads to, read from the tables rs, ps, rps
Related(model, row, key, rs, ps, rps) ==
    CASE model = "Restaurant"      -> { rp \in rps : rp.restaurant_id = row.id }
      [] model = "Pizza"           -> { rp \in rps : rp.pizza_id = row.id }
      [] model = "RestaurantPizza" ->
            IF key = "restaurant" THEN { r \in rs : r.id = row.restaurant_id }
            ELSE { p \in ps : p.id = row.pizza_id }

\* to_dict(rules=given): the model's own serialize_rules are added to the
\* given ones; an attribute is left out when a rule names exactly it; a
\* collection becomes a list, a many-to-one attribute an object or null
RECURSIVE to_dict(_, _, _, _, _, _)
to_dict(model, row, given, rs, ps, rps) ==
    LET rules == given \cup serialize_rules(model)
        rels  == Relationships(model)
        keys  == { k \in Columns(model) \cup DOMAIN rels : <<k>> \notin rules }
        nested(k) ==
            LET rows == Related(model, row, k, rs, ps, rps)
                sub  == Fork(rules, k)
            IN  IF k = "restaurant_pizzas"
                THEN LET ordered == OrderById(rows)
                     IN  [ i \in 1..Len(ordered) |->
                             to_dict(rels[k], ordered[i], sub, rs, ps, rps) ]
                ELSE IF rows = {} THEN JNull
                     ELSE to_dict(rels[k], CHOOSE r \in rows : TRUE, sub, rs, ps, rps)
    IN  [ k \in keys |-> IF k \in Columns(model) THEN row[k] ELSE nested(k) ]

-----------------------------------------------------------------------------
(* app.py: responses *)

make_error_response(message, status_code) ==
    [status |-> status_code, body |-> [error |-> message]]

make_validation_error_response(errors) ==
    [status |-> 400, body |-> [errors |-> errors]]

make_response(body, status_code) == [status |-> status_code, body |-> body]

\* what the framework answers when request.get_json() rejects the body, or
\* when an exception leaves the handler: a status and its own message
framework_response(status_code) ==
    [status |-> status_code, body |-> [message |-> "framework"]]

NoResponse == [status |-> 0, body |-> ""]

-----------------------------------------------------------------------------
(* app.py: the steps of POST /restaurant_pizzas *)

PostRequest(body) == [method |-> "POST", path |-> "/restaurant_pizzas", body |-> body]

\* `not all([price is not None, pizza_id is not None, restaurant_id is not None])`
MissingFields(data) ==
    ~ (data.price # JNull /\ data.pizza_id # JNull /\ data.restaurant_id # JNull)

\* the mutation of post_lookup that validates nothing about the pizza
post_lookup_no_pizza(body, rs, ps) ==
    IF body.kind = "not_json" THEN framework_response(415)
    ELSE IF body.kind = "malformed" THEN framework_response(400)
    ELSE IF body.kind # "object" THEN framework_response(500)
    ELSE IF MissingFields(body)
    THEN make_validation_error_response(
             <<"Missing required fields: price, pizza_id, restaurant_id">>)
    ELSE IF ~ Found(rs, body.restaurant_id)
    THEN make_error_response("Restaurant not found", 404)
    ELSE NoResponse

\* lines 149-167: the response with which the request ends before the
\* handler touches the session, or NoResponse when the handler goes on.
\* Line 149: get_json answers 415 without the JSON content type and 400 for
\* text that is not JSON.  Line 152: data.get raises AttributeError when the
\* JSON is not an object; nothing catches it and the framework answers 500.
post_lookup(body, rs, ps) ==
    IF body.kind = "not_json" THEN framework_response(415)
    ELSE IF body.kind = "malformed" THEN framework_response(400)
    ELSE IF body.kind # "object" THEN framework_response(500)
    ELSE IF MissingFields(body)
    THEN make_validation_error_response(
             <<"Missing required fields: price, pizza_id, restaurant_id">>)
    ELSE IF ~ Found(rs, body.restaurant_id)
    THEN make_error_response("Restaurant not found", 404)
    ELSE IF ~ Found(ps, body.pizza_id)
    THEN make_error_response("Pizza not found", 404)
    ELSE NoResponse

\* lines 171-175: the pending RestaurantPizza.  The Float column holds the
\* number (a bool as 0.0 or 1.0), the Integer columns the integer the
\* database makes of the id that the lookup found.
RestaurantPizza(price, pizza_id, restaurant_id) ==
    [price |-> Hundredths(price),
     pizza_id |-> CHOOSE i \in DbInteger(pizza_id) : TRUE,
     restaurant_id |-> CHOOSE i \in DbInteger(restaurant_id) : TRUE]

\* lines 180-181: the row that db.session.commit() inserts for the pending
\* object
inserted_row(rps, new_rp) ==
    [id |-> next_id(rps), price |-> new_rp.price,
     restaurant_id |-> new_rp.restaurant_id, pizza_id |-> new_rp.pizza_id]

\* lines 189-193: what `except ValueError` returns after the rollback
validation_errors == make_validation_error_response(<<"validation errors">>)

\* lines 199-202: what `except Exception` returns after the rollback
unexpected_server_error ==
    make_error_response("An unexpected server error occurred: ...", 500)

-----------------------------------------------------------------------------
(* app.py: the steps of GET and DELETE /restaurants/<id> *)

PathRequest(method, id) == [method |-> method, path |-> "/restaurants/<int:id>", id |-> id]

\* the mutation of cascade_delete that cascades to nothing
cascade_delete_none(rps, id) == {}

\* cascade="all, delete-orphan": the offerings db.session.delete(restaurant)
\* loads from the restaurant's collection and marks for deletion with it
cascade_delete(rps, id) == { rp \in rps : rp.restaurant_id = id }

\* the mutation of restaurant_not_found that answers 204
restaurant_not_found_204 == make_response("", 204)

\* lines 91 and 110
restaurant_not_found == make_error_response("Restaurant not found", 404)

-----------------------------------------------------------------------------
(* The initial state: the seeded database, no request handled, the        *)
(* workers idle                                                            *)

Idle == [pc |-> "idle"]

Init ==
    /\ restaurants = seed_restaurants
    /\ pizzas = seed_pizzas
    /\ restaurant_pizzas = seed_restaurant_pizzas
    /\ request = [method |-> "NONE", path |-> ""]
    /\ response = NoResponse
    /\ post_worker = Idle
    /\ delete_worker = Idle
    /\ get_worker = Idle

\* no request is being handled
AllIdle ==
    /\ post_worker.pc = "idle"
    /\ delete_worker.pc = "idle"
    /\ get_worker.pc = "idle"

-----------------------------------------------------------------------------
(* The GET routes.  `request` and `response` hold the request completed    *)
(* last and its response.                                                  *)

\* Restaurants.get: one SELECT, no relationship is serialized
Restaurants_get ==
    /\ get_worker.pc = "idle"
    /\ request' = [method |-> "GET", path |-> "/restaurants"]
    /\ response' =
         LET ordered == OrderById(restaurants)
         IN  make_response(
                 [ i \in 1..Len(ordered) |->
                     to_dict("Restaurant", ordered[i], { <<"restaurant_pizzas">> },
                             restaurants, pizzas, restaurant_pizzas) ],
                 200)
    /\ UNCHANGED <<store, workers>>

\* Pizzas.get: one SELECT, no relationship is serialized
Pizzas_get ==
    /\ get_worker.pc = "idle"
    /\ request' = [method |-> "GET", path |-> "/pizzas"]
    /\ response' =
         LET ordered == OrderById(pizzas)
         IN  make_response(
                 [ i \in 1..Len(ordered) |->
                     to_dict("Pizza", ordered[i], { <<"restaurant_pizzas">> },
                             restaurants, pizzas, restaurant_pizzas) ],
                 200)
    /\ UNCHANGED <<store, workers>>

\* RestaurantByID.get, lines 89-91: the restaurant's row is loaded
Get_lookup(id) ==
    /\ get_worker.pc = "idle"
    /\ IF ~ Found(restaurants, JInt(id))
       THEN /\ request' = PathRequest("GET", id)
            /\ response' = restaurant_not_found
            /\ UNCHANGED get_worker
       ELSE /\ get_worker' =
                 [pc |-> "to_dict", id |-> id,
                  row |-> TheRow(query_get(restaurants, JInt(id)))]
            /\ UNCHANGED <<request, response>>
    /\ UNCHANGED <<store, post_worker, delete_worker>>

\* RestaurantByID.get, line 98: to_dict serializes the loaded row and loads
\* its restaurant_pizzas and their pizzas now (the pizzas never change)
Get_to_dict ==
    /\ get_worker.pc = "to_dict"
    /\ request' = PathRequest("GET", get_worker.id)
    /\ response' =
         make_response(
             to_dict("Restaurant", get_worker.row, {}, restaurants, pizzas,
                     restaurant_pizzas),
             200)
    /\ get_worker' = Idle
    /\ UNCHANGED <<store, post_worker, delete_worker>>

-----------------------------------------------------------------------------
(* DELETE /restaurants/<id> *)

\* delete, lines 108-110
Delete_lookup(id) ==
    /\ delete_worker.pc = "idle"
    /\ IF ~ Found(restaurants, JInt(id))
       THEN /\ request' = PathRequest("DELETE", id)
            /\ response' = restaurant_not_found
            /\ UNCHANGED delete_worker
       ELSE /\ delete_worker' = [pc |-> "delete", id |-> id]
            /\ UNCHANGED <<request, response>>
    /\ UNCHANGED <<store, post_worker, get_worker>>

\* delete, line 113: the session marks the restaurant and the offerings of
\* its collection, which it loads now
Delete_mark ==
    /\ delete_worker.pc = "delete"
    /\ delete_worker' =
         [pc |-> "commit", id |-> delete_worker.id,
          cascade |-> cascade_delete(restaurant_pizzas, delete_worker.id)]
    /\ UNCHANGED <<store, request, response, post_worker, get_worker>>

\* delete, lines 114-115: one transaction deletes the marked rows.  No other
\* worker deletes rows, so the DELETE statements find their rows and the
\* commit does not raise: `except Exception` (116-119) is not entered.
Delete_commit ==
    /\ delete_worker.pc = "commit"
    /\ restaurants' = { r \in restaurants : r.id # delete_worker.id }
    /\ restaurant_pizzas' = restaurant_pizzas \ delete_worker.cascade
    /\ request' = PathRequest("DELETE", delete_worker.id)
    /\ response' = make_response("", 204)
    /\ delete_worker' = Idle
    /\ UNCHANGED <<pizzas, post_worker, get_worker>>

-----------------------------------------------------------------------------
(* POST /restaurant_pizzas *)

\* post, lines 149-167; the lookup of the pizza is in the same step as that
\* of the restaurant because no request changes the pizzas.  New requests
\* are taken while the next offering id is at most `cap`.
Post_lookup(body, cap) ==
    /\ post_worker.pc = "idle"
    /\ next_id(restaurant_pizzas) <= cap
    /\ LET early == post_lookup(body, restaurants, pizzas)
       IN  IF early.status # 0
           THEN /\ request' = PostRequest(body)
                /\ response' = early
                /\ UNCHANGED post_worker
           ELSE /\ post_worker' = [pc |-> "construct", body |-> body]
                /\ UNCHANGED <<request, response>>
    /\ UNCHANGED <<store, delete_worker, get_worker>>

\* post, lines 171-180 and 189-193: the constructor validates the price;
\* nothing is read or written in the database
Post_add ==
    /\ post_worker.pc = "construct"
    /\ LET body == post_worker.body
       IN  IF ~ validate_price(body.price)
           THEN /\ request' = PostRequest(body)
                /\ response' = validation_errors
                /\ post_worker' = Idle
           ELSE /\ post_worker' =
                     [pc |-> "commit", body |-> body,
                      new_rp |-> RestaurantPizza(body.price, body.pizza_id,
                                                 body.restaurant_id)]
                /\ UNCHANGED <<request, response>>
    /\ UNCHANGED <<store, delete_worker, get_worker>>

\* post, line 181: the INSERT and the commit; the session's objects expire.
\* The database assigns the id and enforces no foreign key, and the three
\* NOT NULL columns get values that passed the presence check, so the
\* INSERT violates no constraint and `except IntegrityError` (194-198) is
\* not entered.
Post_commit ==
    /\ post_worker.pc = "commit"
    /\ LET row == inserted_row(restaurant_pizzas, post_worker.new_rp)
       IN  /\ restaurant_pizzas' = restaurant_pizzas \cup { row }
           /\ post_worker' =
                [pc |-> "refresh", body |-> post_worker.body, id |-> row.id]
    /\ UNCHANGED <<restaurants, pizzas, request, response, delete_worker,
                   get_worker>>

\* post, line 187 and 199-202: to_dict first reloads the expired new_rp by
\* its id; when the row is gone the load raises, which `except Exception`
\* answers with 500
Post_refresh ==
    /\ post_worker.pc = "refresh"
    /\ LET rows == { rp \in restaurant_pizzas : rp.id = post_worker.id }
       IN  IF rows = {}
           THEN /\ request' = PostRequest(post_worker.body)
                /\ response' = unexpected_server_error
                /\ post_worker' = Idle
           ELSE /\ post_worker' =
                     [pc |-> "to_dict", body |-> post_worker.body,
                      row |-> TheRow(rows)]
                /\ UNCHANGED <<request, response>>
    /\ UNCHANGED <<store, delete_worker, get_worker>>

\* post, line 187: to_dict loads the offering's restaurant (null when it is
\* gone) and pizza and the handler answers 201
Post_to_dict ==
    /\ post_worker.pc = "to_dict"
    /\ request' = PostRequest(post_worker.body)
    /\ response' =
         make_response(
             to_dict("RestaurantPizza", post_worker.row, {}, restaurants,
                     pizzas, restaurant_pizzas),
             201)
    /\ post_worker' = Idle
    /\ UNCHANGED <<store, delete_worker, get_worker>>

-----------------------------------------------------------------------------
(* Requests run to completion, one after the other *)

Next ==
    \/ AllIdle /\ Restaurants_get
    \/ AllIdle /\ Pizzas_get
    \/ AllIdle /\ \E id \in PathIds : Get_lookup(id)
    \/ Get_to_dict
    \/ AllIdle /\ \E id \in PathIds : Delete_lookup(id)
    \/ Delete_mark
    \/ Delete_commit
    \/ AllIdle /\ \E body \in Objects(PriceInputs, PizzaIdInputs, RestaurantIdInputs)
                                \cup OtherBodies :
                      Post_lookup(body, MaxOfferingId)
    \/ Post_add
    \/ Post_commit
    \/ Post_refresh
    \/ Post_to_dict

Spec == Init /\ [][Next]_vars

-----------------------------------------------------------------------------
(* The steps of the three workers interleaved *)

NextConc ==
    \/ Restaurants_get
    \/ \E id \in ConcPathIds : Get_lookup(id)
    \/ Get_to_dict
    \/ \E id \in ConcPathIds : Delete_lookup(id)
    \/ Delete_mark
    \/ Delete_commit
    \/ \E body \in Objects(ConcPriceInputs, ConcPizzaIdInputs, ConcRestaurantIdInputs)
                     \cup { [kind |-> "array"] } :
           Post_lookup(body, MaxConcOfferingId)
    \/ Post_add
    \/ Post_commit
    \/ Post_refresh
    \/ Post_to_dict

SpecConc == Init /\ [][NextConc]_vars

-----------------------------------------------------------------------------
(* Vocabulary of the properties *)

\* a JSON number (not a bool) outside [1, 30]
NumberOutside(price) ==
    /\ price.t \in {"int", "float"}
    /\ ~ (1 * 100 <= Hundredths(price) /\ Hundredths(price) <= 30 * 100)

\* a JSON number (not a bool) inside [1, 30]
NumberInside(price) ==
    /\ price.t \in {"int", "float"}
    /\ 1 * 100 <= Hundredths(price)
    /\ Hundredths(price) <= 30 * 100

\* the id is given and is the id of no row of the table
Dangling(table, id) == id # JNull /\ DbInteger(id) \cap Ids(table) = {}

\* the id is the id of a row of the table
RefersTo(table, id) == DbInteger(id) \cap Ids(table) # {}

IsObject(body) == body.kind = "object"

IsPost(req) == req.method = "POST"

IsDeleteById(req) == req.method = "DELETE" /\ req.path = "/restaurants/<int:id>"

IsGetById(req) == req.method = "GET" /\ req.path = "/restaurants/<int:id>"

\* a 400 response with a non-empty `errors` array
Is400WithErrors(resp) ==
    /\ resp.status = 400
    /\ DOMAIN resp.body = {"errors"}
    /\ Len(resp.body.errors) > 0

Is404(resp, message) ==
    /\ resp.status = 404
    /\ resp.body = [error |-> message]

Owned(rps, id) == { rp \in rps : rp.restaurant_id = id }

\* this step completes a request: it sets `request` and `response`
Answers == <<request', response'>> # <<request, response>>

\* this step is a step of the POST handler
PostStep == post_worker' # post_worker \/ (IsPost(request') /\ Answers)

\* the body of the request a step of the POST handler works on
PostBody ==
    IF post_worker.pc # "idle" THEN post_worker.body
    ELSE IF post_worker'.pc # "idle" THEN post_worker'.body
    ELSE request'.body

\* this step of the POST handler ends the request; `response'` is its answer
PostEnds == PostStep /\ post_worker'.pc = "idle"

\* this step is the first step of the DELETE handler
DeleteStarts ==
    /\ delete_worker.pc = "idle"
    /\ delete_worker'.pc # "idle" \/ (IsDeleteById(request') /\ Answers)

\* the id in the path of the DELETE request that starts in this step
DeleteStartId ==
    IF delete_worker'.pc # "idle" THEN delete_worker'.id ELSE request'.id

\* this step is the first step of the handler of GET /restaurants/<id>
GetStarts ==
    /\ get_worker.pc = "idle"
    /\ get_worker'.pc # "idle" \/ (IsGetById(request') /\ Answers)

\* the id in the path of the GET request that starts in this step
GetStartId ==
    IF get_worker'.pc # "idle" THEN get_worker'.id ELSE request'.id

-----------------------------------------------------------------------------
(* Properties *)

\* C1: with every request run to completion before the next starts, every
\* offering row references an existing restaurant and an existing pizza.
C1_ReferentialIntegrity ==
    \A rp \in restaurant_pizzas :
        /\ rp.restaurant_id \in Ids(restaurants)
        /\ rp.pizza_id \in Ids(pizzas)

\* C1 witness: a restaurant has been deleted with its offerings, and an
\* offering created by a POST is in the store.
C1_Witness ==
    /\ AllIdle
    /\ Ids(restaurants) # Ids(seed_restaurants)
    /\ ~ (seed_restaurant_pizzas \subseteq restaurant_pizzas)
    /\ restaurant_pizzas \ seed_restaurant_pizzas # {}

\* C2: every offering row has a price p with 1 <= p <= 30, whatever the
\* request bodies were.
C2_PriceInRange ==
    \A rp \in restaurant_pizzas : 1 * 100 <= rp.price /\ rp.price <= 30 * 100

\* C2 witness: a POST with the largest allowed price has been answered 201
\* and its row is in the store.
C2_Witness ==
    /\ IsPost(request)
    /\ response.status = 201
    /\ request.body.price = JInt(30)
    /\ \E rp \in restaurant_pizzas \ seed_restaurant_pizzas : rp.price = 30 * 100

C5_DeleteCascadesAtOnce ==
    [][ /\ (DeleteStarts /\ Found(restaurants, JInt(DeleteStartId)))
          => delete_worker'.pc # "idle"
        /\ (delete_worker.pc # "idle" /\ delete_worker'.pc = "idle")
          => /\ request' = PathRequest("DELETE", delete_worker.id)
             /\ response'.status = 204
             /\ delete_worker.id \notin Ids(restaurants')
             /\ Owned(restaurant_pizzas', delete_worker.id) = {}
        /\ \A rp \in restaurant_pizzas \ restaurant_pizzas' :
              rp.restaurant_id \notin Ids(restaurants')
        /\ \A r \in restaurants \ restaurants' :
              Owned(restaurant_pizzas', r.id) = {} ]_vars

\* C6: a DELETE for an id that is the id of no restaurant is answered 404
\* "Restaurant not found" at once, never 204, and changes nothing in the
\* store; and a DELETE answered 204 leaves the id absent, so that the same
\* DELETE again is answered 404.
C6_DeleteAbsentIs404 ==
    [][ /\ (DeleteStarts /\ ~ Found(restaurants, JInt(DeleteStartId)))
          => /\ request' = PathRequest("DELETE", DeleteStartId)
             /\ Is404(response', "Restaurant not found")
             /\ response'.status # 204
             /\ delete_worker'.pc = "idle"
             /\ store' = store
        /\ (IsDeleteById(request') /\ Answers /\ response'.status = 204)
          => /\ delete_worker.pc = "commit"
             /\ request'.id = delete_worker.id
             /\ ~ Found(restaurants', JInt(request'.id)) ]_vars

\* C6 witness: a DELETE for the id of a restaurant of the seeded store, which
\* an earlier DELETE removed, has been answered 404.
C6_Witness ==
    /\ IsDeleteById(request)
    /\ request.id \in Ids(seed_restaurants)
    /\ request.id \notin Ids(restaurants)
    /\ response.status = 404
    /\ delete_worker.pc = "idle"

\* C7: with the steps of a POST /restaurant_pizzas and of a
\* DELETE /restaurants/<id> interleaved, no committed state holds an offering
\* whose restaurant_id is the id of no restaurant.
C7_NoOrphanUnderInterleaving ==
    \A rp \in restaurant_pizzas : \E r \in restaurants : r.id = rp.restaurant_id

\* C8: a POST with all fields present, an existing restaurant and pizza and
\* a number in [1, 30] as price is answered 201; the payload holds the new
\* id, the price and the two ids, the restaurant's row and the pizza's row
\* (neither with a restaurant_pizzas collection); its commit adds exactly
\* that one row and no other step of it changes the store.
C8_CreateAnswers201 ==
    [][ /\ ( /\ post_worker.pc = "idle"
             /\ PostStep
             /\ IsObject(PostBody)
             /\ NumberInside(PostBody.price)
             /\ RefersTo(restaurants, PostBody.restaurant_id)
             /\ RefersTo(pizzas, PostBody.pizza_id) )
          => /\ post_worker'.pc = "construct"
             /\ store' = store
        /\ ( /\ post_worker.pc # "idle"
             /\ PostStep
             /\ NumberInside(PostBody.price) )
          => LET row == [id |-> next_id(restaurant_pizzas),
                         price |-> Hundredths(PostBody.price),
                         restaurant_id |->
                             TheRow(DbInteger(PostBody.restaurant_id)),
                         pizza_id |-> TheRow(DbInteger(PostBody.pizza_id))]
                 body == response'.body
             IN  /\ IF post_worker.pc = "commit"
                    THEN /\ restaurant_pizzas' = restaurant_pizzas \cup {row}
                         /\ row.id \notin Ids(restaurant_pizzas)
                         /\ post_worker'.id = row.id
                    ELSE restaurant_pizzas' = restaurant_pizzas
                 /\ <<restaurants', pizzas'>> = <<restaurants, pizzas>>
                 /\ PostEnds
                      => /\ post_worker.pc = "to_dict"
                         /\ response'.status = 201
                         /\ DOMAIN body = {"id", "price", "restaurant_id",
                                           "pizza_id", "restaurant", "pizza"}
                         /\ body.id = post_worker.row.id
                         /\ body.price = row.price
                         /\ body.restaurant_id = row.restaurant_id
                         /\ body.pizza_id = row.pizza_id
                         /\ body.restaurant \in restaurants
                         /\ body.restaurant.id = row.restaurant_id
                         /\ body.pizza \in pizzas
                         /\ body.pizza.id = row.pizza_id
                         /\ "restaurant_pizzas" \notin DOMAIN body.restaurant
                         /\ "restaurant_pizzas" \notin DOMAIN body.pizza
                         /\ \E rp \in restaurant_pizzas :
                               /\ rp.id = body.id
                               /\ rp.price = row.price
                               /\ rp.restaurant_id = row.restaurant_id
                               /\ rp.pizza_id = row.pizza_id ]_vars

\* C9: GET /restaurants/<id> for an existing restaurant is answered 200 with
\* id, name, address and a restaurant_pizzas list of exactly the offerings of
\* that restaurant; each entry has its four columns and its pizza's row, the
\* pizza without a restaurant_pizzas collection, the entry without a
\* restaurant attribute.
C9_GetByIdPayload ==
    [][ /\ (GetStarts /\ Found(restaurants, JInt(GetStartId)))
          => /\ get_worker'.pc = "to_dict"
             /\ get_worker'.id = GetStartId
             /\ get_worker'.row \in restaurants
             /\ get_worker'.row.id = GetStartId
        /\ (get_worker.pc = "to_dict" /\ get_worker' # get_worker)
          => LET body  == response'.body
                 owned == Owned(restaurant_pizzas, get_worker.id)
             IN  /\ get_worker'.pc = "idle"
                 /\ request' = PathRequest("GET", get_worker.id)
                 /\ response'.status = 200
                 /\ DOMAIN body = {"id", "name", "address", "restaurant_pizzas"}
                 /\ [id |-> body.id, name |-> body.name, address |-> body.address]
                      = get_worker.row
                 /\ Len(body.restaurant_pizzas) = Cardinality(owned)
                 /\ { body.restaurant_pizzas[i].id :
                        i \in 1..Len(body.restaurant_pizzas) } = Ids(owned)
                 /\ \A i \in 1..Len(body.restaurant_pizzas) :
                      LET entry == body.restaurant_pizzas[i]
                          rp    == CHOOSE o \in owned : o.id = entry.id
                      IN  /\ DOMAIN entry = {"id", "price", "restaurant_id",
                                             "pizza_id", "pizza"}
                          /\ "restaurant" \notin DOMAIN entry
                          /\ entry.price = rp.price
                          /\ entry.restaurant_id = rp.restaurant_id
                          /\ entry.pizza_id = rp.pizza_id
                          /\ entry.pizza \in pizzas
                          /\ entry.pizza.id = rp.pizza_id
                          /\ "restaurant_pizzas" \notin DOMAIN entry.pizza ]_vars

\* C9 witness: GET for a restaurant that owns three offerings, one of them
\* created by a POST, has been answered 200 with three entries.
C9_Witness ==
    /\ IsGetById(request)
    /\ response.status = 200
    /\ get_worker.pc = "idle"
    /\ Len(response.body.restaurant_pizzas) = 3
    /\ Owned(restaurant_pizzas, request.id) \ seed_restaurant_pizzas # {}

\* price, pizza_id or restaurant_id is absent from the parsed body or null
AbsentOrNull(body) == ~ IsObject(body) \/ MissingFields(body)

\* C10: the POST handler answers in a fixed order before it touches the
\* session: 400 with errors when a field is absent or null; else 404
\* "Restaurant not found"; else 404 "Pizza not found"; in these three cases
\* it returns at once, nothing is added or committed and the store is as it
\* was.  Only a request that passed all three has its price validated, and a
\* failed validation is answered 400 with the store as it was.
C10_ChecksInOrder ==
    [][ /\ ( /\ post_worker.pc = "idle"
             /\ PostStep
             /\ PostBody.kind \in {"object", "array", "null"} )
          => LET body == PostBody
             IN  /\ store' = store
                 /\ AbsentOrNull(body)
                      => PostEnds /\ Is400WithErrors(response')
                 /\ (~ AbsentOrNull(body) /\ Dangling(restaurants, body.restaurant_id))
                      => PostEnds /\ Is404(response', "Restaurant not found")
                 /\ ( /\ ~ AbsentOrNull(body)
                      /\ ~ Dangling(restaurants, body.restaurant_id)
                      /\ Dangling(pizzas, body.pizza_id) )
                      => PostEnds /\ Is404(response', "Pizza not found")
                 /\ ( /\ ~ AbsentOrNull(body)
                      /\ ~ Dangling(restaurants, body.restaurant_id)
                      /\ ~ Dangling(pizzas, body.pizza_id) )
                      => post_worker'.pc = "construct"
        /\ (post_worker.pc = "construct" /\ PostStep)
          => /\ store' = store
             /\ IF validate_price(post_worker.body.price)
                THEN post_worker'.pc = "commit"
                ELSE PostEnds /\ Is400WithErrors(response') ]_vars

====
